---- MODULE Spec2Model ----
(***************************************************************************)
(* Model of the biexponential (Logicle) scale translator and its cache,    *)
(* src/src/app/bi-exponential.ts.                                          *)
(*                                                                         *)
(* A JavaScript `number` is modelled as a binary floating-point value      *)
(* [k, m, e]: k is "fin", "inf" or "nan"; a finite value is m * 2^e with   *)
(* the significand m normalised to Precision bits (2^(Precision-1) <= |m|  *)
(* < 2^Precision), or m = 0 and e = 0.  An infinity has m = 1 or m = -1,   *)
(* NaN has m = 0.  Every arithmetic operator of the source is translated   *)
(* to the operator of the same meaning below (+ to FAdd, * to FMul, ...),  *)
(* with IEEE-754 treatment of NaN and the infinities and rounding to the   *)
(* nearest significand.                                                    *)
(***************************************************************************)
EXTENDS Integers, Sequences, FiniteSets, TLC

\* Bits of the significand of a number.
Precision == 15

Pow2 == [i \in 0..30 |-> 2^i]

NaN == [k |-> "nan", m |-> 0, e |-> 0]
Infinity == [k |-> "inf", m |-> 1, e |-> 0]
NegInfinity == [k |-> "inf", m |-> -1, e |-> 0]
Zero == [k |-> "fin", m |-> 0, e |-> 0]

IsNaN(x) == x.k = "nan"
IsInf(x) == x.k = "inf"
IsFin(x) == x.k = "fin"

IAbs(n) == IF n < 0 THEN -n ELSE n
ISgn(n) == IF n > 0 THEN 1 ELSE IF n < 0 THEN -1 ELSE 0

\* Number of bits of the integers 0 .. 2^Precision - 1.
BitTable ==
    [n \in 0..(Pow2[Precision] - 1) |->
        IF n = 0 THEN 0 ELSE CHOOSE b \in 1..Precision : Pow2[b - 1] <= n /\ n < Pow2[b]]

\* Number of bits of the positive integer n < 2^(2 * Precision).
BitLen(n) ==
    IF n < Pow2[Precision] THEN BitTable[n] ELSE Precision + BitTable[n \div Pow2[Precision]]

\* The number s * n * 2^e (s a sign, n > 0 of b bits), rounded to Precision bits.
Round(s, n, e, b) ==
    IF b <= Precision
    THEN [k |-> "fin", m |-> s * n * Pow2[Precision - b], e |-> e - (Precision - b)]
    ELSE IF (n + Pow2[b - Precision - 1]) \div Pow2[b - Precision] = Pow2[Precision]
         THEN [k |-> "fin", m |-> s * Pow2[Precision - 1], e |-> e + (b - Precision) + 1]
         ELSE [k |-> "fin", m |-> s * ((n + Pow2[b - Precision - 1]) \div Pow2[b - Precision]),
               e |-> e + (b - Precision)]

\* The number s * n * 2^e (s a sign, n >= 0), rounded to Precision bits.
Norm(s, n, e) == IF n = 0 THEN Zero ELSE Round(s, n, e, BitLen(n))

\* An integer literal, and a literal n * 2^e.
FromInt(n) == Norm(ISgn(n), IAbs(n), 0)
Lit(n, e) == Norm(ISgn(n), IAbs(n), e)

One == FromInt(1)
Two == FromInt(2)

FNeg(x) == [x EXCEPT !.m = -x.m]
MathAbs(x) == [x EXCEPT !.m = IAbs(x.m)]

FMul(x, y) ==
    IF IsNaN(x) \/ IsNaN(y) THEN NaN
    ELSE IF IsInf(x) \/ IsInf(y)
         THEN IF x.m = 0 \/ y.m = 0 THEN NaN
              ELSE [k |-> "inf", m |-> ISgn(x.m) * ISgn(y.m), e |-> 0]
         ELSE Norm(ISgn(x.m) * ISgn(y.m), IAbs(x.m) * IAbs(y.m), x.e + y.e)

FDiv(x, y) ==
    IF IsNaN(x) \/ IsNaN(y) THEN NaN
    ELSE IF IsInf(x)
         THEN IF IsInf(y) THEN NaN
              ELSE [k |-> "inf", m |-> x.m * (IF y.m >= 0 THEN 1 ELSE -1), e |-> 0]
         ELSE IF IsInf(y) THEN Zero
         ELSE IF y.m = 0
              THEN IF x.m = 0 THEN NaN ELSE [k |-> "inf", m |-> ISgn(x.m), e |-> 0]
              ELSE Norm(ISgn(x.m) * ISgn(y.m),
                        (IAbs(x.m) * Pow2[Precision]) \div IAbs(y.m),
                        x.e - y.e - Precision)

\* x + y for finite non-zero x, y with x.e >= y.e.
FAddOrdered(x, y) ==
    IF x.e - y.e >= Precision THEN x
    ELSE LET s == x.m * Pow2[x.e - y.e] + y.m IN Norm(ISgn(s), IAbs(s), y.e)

FAdd(x, y) ==
    IF IsNaN(x) \/ IsNaN(y) THEN NaN
    ELSE IF IsInf(x) THEN (IF IsInf(y) /\ y.m # x.m THEN NaN ELSE x)
    ELSE IF IsInf(y) THEN y
    ELSE IF x.m = 0 THEN y
    ELSE IF y.m = 0 THEN x
    ELSE IF x.e >= y.e THEN FAddOrdered(x, y) ELSE FAddOrdered(y, x)

FSub(x, y) == FAdd(x, FNeg(y))

\* x < y on finite values: by sign, then exponent, then significand.
FinLt(x, y) ==
    IF ISgn(x.m) # ISgn(y.m) THEN ISgn(x.m) < ISgn(y.m)
    ELSE IF x.m = 0 THEN FALSE
    ELSE IF x.m > 0 THEN x.e < y.e \/ (x.e = y.e /\ x.m < y.m)
    ELSE x.e > y.e \/ (x.e = y.e /\ x.m < y.m)

\* The comparisons of the language: every comparison with NaN is false.
FLt(x, y) ==
    IF IsNaN(x) \/ IsNaN(y) THEN FALSE
    ELSE IF x = y THEN FALSE
    ELSE IF IsInf(x) THEN x.m < 0
    ELSE IF IsInf(y) THEN y.m > 0
    ELSE FinLt(x, y)
FEq(x, y) == ~IsNaN(x) /\ ~IsNaN(y) /\ x = y
FLe(x, y) == FLt(x, y) \/ FEq(x, y)
FGt(x, y) == FLt(y, x)
FGe(x, y) == FLe(y, x)

\* The integer floor(m * 2^e) of a finite number.
ToInt(x) ==
    IF x.e >= 0 THEN x.m * Pow2[x.e]
    ELSE IF -x.e > 30 THEN (IF x.m >= 0 THEN 0 ELSE -1)
    ELSE x.m \div Pow2[-x.e]

MathFloor(x) == IF ~IsFin(x) \/ x.e >= 0 THEN x ELSE FromInt(ToInt(x))

\* ln 2, the constant of the library's exp and log.
LN2 == Lit(22713, -15)

RECURSIVE ExpSeries(_, _, _)
ExpSeries(r, n, s) ==
    IF n = 0 THEN s ELSE ExpSeries(r, n - 1, FAdd(One, FDiv(FMul(r, s), FromInt(n))))

\* x * 2^k.
TimesPow2(x, k) == [x EXCEPT !.e = x.e + k]

\* exp(x) = 2^k * exp(r) with x = k * ln 2 + r.
ExpReduced(x, k) == TimesPow2(ExpSeries(FSub(x, FMul(k, LN2)), 8, One), ToInt(k))

\* Math.exp
MathExp(x) ==
    IF IsNaN(x) THEN NaN
    ELSE IF IsInf(x) THEN (IF x.m > 0 THEN Infinity ELSE Zero)
    ELSE ExpReduced(x, MathFloor(FAdd(FDiv(x, LN2), Lit(1, -1))))

RECURSIVE LogSeries(_, _, _)
LogSeries(z2, n, s) ==
    IF n < 1 THEN s ELSE LogSeries(z2, n - 2, FAdd(FMul(s, z2), FDiv(One, FromInt(n))))

\* Math.log: ln(m * 2^e) = (e + Precision) * ln 2 + ln(u), u = m / 2^Precision.
MathLog(x) ==
    IF IsNaN(x) \/ x.m < 0 THEN NaN
    ELSE IF IsInf(x) THEN Infinity
    ELSE IF x.m = 0 THEN NegInfinity
    ELSE LET u == [x EXCEPT !.e = -Precision]
             z == FDiv(FSub(u, One), FAdd(u, One))
         IN FAdd(FMul(FromInt(x.e + Precision), LN2),
                 FMul(Two, FMul(z, LogSeries(FMul(z, z), 13, Zero))))

MathLog10(x) == FDiv(MathLog(x), MathLog(FromInt(10)))

(***************************************************************************)
(* class BiexponentialTranslator                                           *)
(***************************************************************************)

\* The field initialisers of the class.
_bins == 1024
_M == Lit(9, -1)
LN_10 == MathLog(FromInt(10))
_EPSILON == FDiv(FDiv(One, FromInt(1000000)), FromInt(1000000))
Biexponential == 2

\* A value that has not been assigned: a slot of `new Array(n)`, an unused
\* field of a call record.
Undefined == [k |-> "undefined", m |-> 0, e |-> 0]

\* Variant: the loop of solve runs one iteration more.
SolveLoopLimitPlusOne == 20 + 1

\* The exclusive upper limit of the loop counter of solve, which starts at 1.
SolveLoopLimit == 20

\* The outcome of solve: the value returned or the error thrown, after
\* `iterations` executions of the loop body.
Returned(v, iterations) == [threw |-> FALSE, value |-> v, iterations |-> iterations]
Thrown(iterations) == [threw |-> TRUE, value |-> Undefined, iterations |-> iterations]

\* Variant: the loop counter of solve starts at 0.
CounterFromZero == 1 - 1

\* let i = 1
FirstCounter == 1

\* The local variables of solve after lines 178-190, f not yet evaluated.
\* `to` holds the value the step's d is compared with, `bisect` the branch the
\* iteration took.
SolveBracket(b, w) ==
    [i |-> FirstCounter, w |-> w, d_lo |-> Zero, d_hi |-> b, d |-> FDiv(FAdd(Zero, b), Two),
     last_delta |-> FSub(b, Zero), delta |-> Undefined,
     f_b |-> FAdd(FMul(FromInt(-2), MathLog(b)), FMul(w, b)),
     f |-> Undefined, last_f |-> NaN, df |-> Undefined, to |-> Undefined,
     bisect |-> FALSE]

\* f = 2 * Math.log(d) + w * d + f_b
EvaluateF(st) ==
    [st EXCEPT !.f = FAdd(FAdd(FMul(Two, MathLog(st.d)), FMul(st.w, st.d)), st.f_b)]

\* The local variables of solve when it enters its loop.
SolveEntry(b, w) == EvaluateF(SolveBracket(b, w))

\* let df = 2 / d + w
Derivative(st) == [st EXCEPT !.df = FAdd(FDiv(Two, st.d), st.w)]

\* The condition under which an iteration of solve takes a bisection step.
TakesBisection(st) ==
    \/ FGe(FMul(FSub(FMul(FSub(st.d, st.d_hi), st.df), st.f),
                FSub(FMul(FSub(st.d, st.d_lo), st.df), st.f)), Zero)
    \/ FGt(MathAbs(FMul(FDiv(FromInt(19), FromInt(10)), st.f)),
           MathAbs(FMul(st.last_delta, st.df)))

BisectionDelta(st) ==
    [st EXCEPT !.bisect = TRUE, !.delta = FDiv(FSub(st.d_hi, st.d_lo), Two)]
NewtonDelta(st) == [st EXCEPT !.bisect = FALSE, !.delta = FDiv(st.f, st.df)]

\* d = d_lo + delta, compared with d_lo; or d -= delta, compared with t = d.
Move(st) ==
    IF st.bisect THEN [st EXCEPT !.to = st.d_lo, !.d = FAdd(st.d_lo, st.delta)]
    ELSE [st EXCEPT !.to = st.d, !.d = FSub(st.d, st.delta)]

\* The step of one iteration: bisection or Newton's method.
TakeStep(st) ==
    IF TakesBisection(st) THEN Move(BisectionDelta(st)) ELSE Move(NewtonDelta(st))

\* How an execution of the loop body ended: the return statement that ended it
\* ("none": it ran to the end of the body), the value returned, the branch
\* taken, and the local variables at the next test of the loop condition.
BodyEnd(exit, st) == [exit |-> exit, value |-> st.d, bisect |-> st.bisect, next |-> st]

\* Variant: both ends of the bracket are moved to d.
CollapseBracket(st) == [st EXCEPT !.d_lo = st.d, !.d_hi = st.d]

\* if (f < 0) d_lo = d; else d_hi = d
UpdateBracket(st) ==
    IF FLt(st.f, Zero) THEN [st EXCEPT !.d_lo = st.d] ELSE [st EXCEPT !.d_hi = st.d]

\* The end of the loop body, once f is recomputed.
RootChecks(st) ==
    IF FEq(st.f, Zero) \/ FEq(st.f, st.last_f) THEN BodyEnd("root", st)
    ELSE BodyEnd("none", UpdateBracket([st EXCEPT !.i = st.i + 1, !.last_f = st.f]))

\* The loop body after the step.
StepChecks(this, st) ==
    IF FEq(st.d, st.to) THEN BodyEnd("unchanged", st)
    ELSE IF FLt(MathAbs(st.delta), this._EPSILON) THEN BodyEnd("precision", st)
    ELSE RootChecks(EvaluateF([st EXCEPT !.last_delta = st.delta]))

\* One execution of the loop body of solve from the local variables st.
SolveBody(this, st) == StepChecks(this, TakeStep(Derivative(st)))

\* The loop of solve from the local variables st on, n iterations done.
RECURSIVE SolveLoop(_, _, _)
RECURSIVE SolveContinue(_, _, _)
SolveLoop(this, st, n) ==
    IF ~(st.i < SolveLoopLimit) THEN Thrown(n)
    ELSE SolveContinue(this, SolveBody(this, st), n + 1)
SolveContinue(this, r, n) ==
    IF r.exit # "none" THEN Returned(r.value, n) ELSE SolveLoop(this, r.next, n)

\* The executions of the loop body of solve from the local variables st on, in
\* turn, up to the one that returns or to the failure of the loop condition.
RECURSIVE SolveSteps(_, _)
RECURSIVE SolveStepsAfter(_, _)
SolveSteps(this, st) ==
    IF ~(st.i < SolveLoopLimit) THEN <<>> ELSE SolveStepsAfter(this, SolveBody(this, st))
SolveStepsAfter(this, r) ==
    IF r.exit # "none" THEN <<r>> ELSE <<r>> \o SolveSteps(this, r.next)

\* Variant: solve never returns b directly.
NeverDirectly(w) == FALSE

\* if (w == 0) return b
ReturnsDirectly(w) == FEq(w, Zero)

\* solve(b, w): the root d, or the error "exceeded maximum iterations in solve()".
solve(this, b, w) ==
    IF ReturnsDirectly(w) THEN Returned(b, 0) ELSE SolveLoop(this, SolveEntry(b, w), 0)

\* Variant: the Horner loop runs down to index 1.
RECURSIVE SeriesLoopThroughOne(_, _, _, _)
SeriesLoopThroughOne(taylor, i, x, sum) ==
    IF ~(i >= 1) THEN sum
    ELSE SeriesLoopThroughOne(taylor, i - 1, x, FMul(FAdd(sum, taylor[i]), x))

\* seriesBiexponential: the Horner loop from index length - 2 down to 2.
RECURSIVE SeriesLoop(_, _, _, _)
SeriesLoop(taylor, i, x, sum) ==
    IF ~(i >= 2) THEN sum ELSE SeriesLoop(taylor, i - 1, x, FMul(FAdd(sum, taylor[i]), x))

TaylorLength(this) == Cardinality(DOMAIN this._taylor)

seriesBiexponential(this, scale) ==
    LET x == FSub(scale, this._x1)
        sum0 == FMul(this._taylor[TaylorLength(this) - 1], x)
        sum == SeriesLoop(this._taylor, TaylorLength(this) - 2, x, sum0)
    IN FMul(FAdd(FMul(sum, x), this._taylor[0]), x)

\* The biexponential of a scale value at or above _x1.
InversePositive(this, scale) ==
    IF FLt(scale, this._xTaylor)
    THEN seriesBiexponential(this, scale)
    ELSE FSub(FAdd(FMul(this._a, MathExp(FMul(this._b, scale))), this._f),
              FDiv(this._c, MathExp(FMul(this._d, scale))))

\* Variant: inverse evaluates every scale value as it is, without reflection.
InverseUnreflected(this, scale) == InversePositive(this, scale)

\* inverse: a scale value below _x1 is reflected in _x1 and the result negated.
inverse(this, scale) ==
    IF FLt(scale, this._x1)
    THEN FNeg(InversePositive(this, FSub(FMul(Two, this._x1), scale)))
    ELSE InversePositive(this, scale)

\* The loop of the constructor that fills _taylor.
RECURSIVE TaylorLoop(_, _, _, _, _, _)
TaylorLoop(i, b, d, posCoef, negCoef, taylor) ==
    IF ~(i < Cardinality(DOMAIN taylor)) THEN taylor
    ELSE LET p == FMul(posCoef, FDiv(b, FromInt(i + 1)))
             n == FMul(negCoef, FDiv(FNeg(d), FromInt(i + 1)))
         IN TaylorLoop(i + 1, b, d, p, n, [taylor EXCEPT ![i] = FAdd(p, n)])

\* Variant: the constructor takes the absolute value of every rValue.
AbsoluteRValue(rValue) == MathAbs(rValue)

\* this._rValue as the constructor sets it from its argument.
EffectiveRValue(rValue) ==
    IF FLt(rValue, Zero) THEN MathAbs(rValue) ELSE FDiv(One, FromInt(1000))

\* Whether the constructor records the linear range in min and max.
RecordsRange(rValue) == FLt(rValue, Zero)

\* The object under construction and the constructor's local variables,
\* before the constructor body: the field initialisers have run.
NewObject ==
    [_a |-> Undefined, _b |-> Undefined, _c |-> Undefined, _d |-> Undefined,
     _f |-> Undefined, _x1 |-> Undefined, _W |-> Undefined, _xTaylor |-> Undefined,
     _taylor |-> <<>>, _bins |-> _bins, _lookup |-> <<>>, _rValue |-> Undefined,
     _resolution |-> Undefined, _T |-> Undefined, _M |-> _M, LN_10 |-> LN_10,
     _EPSILON |-> _EPSILON, scale |-> Biexponential, min |-> Zero, max |-> Zero,
     w |-> Undefined, x0 |-> Undefined, solved |-> Undefined, c_a |-> Undefined,
     mf_a |-> Undefined, posCoef |-> Undefined, negCoef |-> Undefined]

\* if (this._W < 0) this._W = 0.0
ClampW(W) == IF FLt(W, Zero) THEN Zero ELSE W

\* The constructor statement by statement, c the object and the locals so far.
CtorRange(c, rValue, linearMax) ==
    [c EXCEPT !._rValue = EffectiveRValue(rValue), !._T = linearMax]
CtorWidth(c) ==
    [c EXCEPT !._W = ClampW(FDiv(FSub(c._M, MathLog10(FDiv(c._T, MathAbs(c._rValue)))),
                                 Two))]
CtorW(c) == [c EXCEPT !.w = FDiv(c._W, c._M)]
CtorBreaks(c) ==
    [c EXCEPT !._x1 = FAdd(Zero, c.w), !.x0 = FAdd(Zero, FMul(Two, c.w)),
              !._b = FMul(c._M, c.LN_10)]
CtorSolve(c) == [c EXCEPT !.solved = solve(c, c._b, c.w)]
CtorD(c) == [c EXCEPT !._d = c.solved.value]
CtorCA(c) == [c EXCEPT !.c_a = MathExp(FMul(c.x0, FAdd(c._b, c._d)))]
CtorMFA(c) ==
    [c EXCEPT !.mf_a = FSub(MathExp(FMul(c._b, c._x1)),
                            FDiv(c.c_a, MathExp(FMul(c._d, c._x1))))]
CtorA(c) ==
    [c EXCEPT !._a = FDiv(c._T, FSub(FSub(MathExp(c._b), c.mf_a),
                                     FDiv(c.c_a, MathExp(c._d))))]
CtorCF(c) ==
    [c EXCEPT !._c = FMul(c.c_a, c._a), !._f = FMul(FNeg(c.mf_a), c._a),
              !._xTaylor = FAdd(c._x1, FDiv(c.w, FromInt(4)))]
CtorPosCoef(c) == [c EXCEPT !.posCoef = FMul(c._a, MathExp(FMul(c._b, c._x1)))]
CtorNegCoef(c) == [c EXCEPT !.negCoef = FDiv(FNeg(c._c), MathExp(FMul(c._d, c._x1)))]
\* Variant: the coefficient at index 1 is left as the loop computed it.
KeepSecond(taylor) == taylor

\* this._taylor[1] = 0
ZeroSecond(taylor) == [taylor EXCEPT ![1] = Zero]

\* new Array(16)
NewTaylor == [i \in 0..15 |-> Undefined]

CtorTaylor(c) ==
    [c EXCEPT !._taylor = ZeroSecond(TaylorLoop(0, c._b, c._d, c.posCoef, c.negCoef,
                                                NewTaylor))]
CtorLookup(c) ==
    [c EXCEPT !._lookup = [i \in 0..c._bins |->
                              inverse(c, FDiv(FMul(FromInt(i), One), FromInt(c._bins)))],
              !._resolution = FDiv(c._M, FromInt(c._bins))]
CtorMinMax(c, rValue, linearMax) ==
    IF RecordsRange(rValue) THEN [c EXCEPT !.max = linearMax, !.min = c._lookup[0]] ELSE c

\* The fields of the object, without the constructor's locals.
Fields ==
    {"_a", "_b", "_c", "_d", "_f", "_x1", "_W", "_xTaylor", "_taylor", "_bins",
     "_lookup", "_rValue", "_resolution", "_T", "_M", "LN_10", "_EPSILON", "scale",
     "min", "max"}
Object(c) == [n \in Fields |-> c[n]]

\* Lines 57-66 and lines 68-87 of the constructor.
CtorCoefficients(c) == CtorCF(CtorA(CtorMFA(CtorCA(CtorD(c)))))
CtorTables(c) == CtorLookup(CtorTaylor(CtorNegCoef(CtorPosCoef(c))))

\* The constructor from the return of solve on.
CtorAfterSolve(c, rValue, linearMax) ==
    IF c.solved.threw THEN [threw |-> TRUE, this |-> Undefined]
    ELSE [threw |-> FALSE,
          this |-> Object(CtorMinMax(CtorTables(CtorCoefficients(c)), rValue, linearMax))]

\* new BiexponentialTranslator(rValue, linearMax): the object built, or the
\* error of solve.
BiexponentialTranslator(rValue, linearMax) ==
    CtorAfterSolve(CtorSolve(CtorBreaks(CtorW(CtorWidth(
                       CtorRange(NewObject, rValue, linearMax))))), rValue, linearMax)

\* The scan of translateFromLinear: the first i in 0 .. length - 2 with
\* lookup[i] <= linearValue < lookup[i + 1], where the loop breaks, or -1.
FindInterval(lookup, linearValue) ==
    LET hits == {i \in 0..(Cardinality(DOMAIN lookup) - 2) :
                    FGe(linearValue, lookup[i]) /\ FLt(linearValue, lookup[i + 1])}
    IN IF hits = {} THEN -1 ELSE CHOOSE i \in hits : \A j \in hits : i <= j

\* The bitwise complement ~n of an integer.
BitNot(n) == -n - 1

\* Variant: translateFromLinear clamps above the last entry of the table.
LastEntryBound(this) == this._lookup[this._bins]

\* The upper clamp bound of translateFromLinear.
UpperClampBound(this) == this._lookup[this._bins - 1]

\* The interpolation of translateFromLinear for 0 < index < _bins.
Interpolate(this, linearValue, index) ==
    FMul(FSub(FAdd(FDiv(FSub(linearValue, this._lookup[index - 1]),
                        FSub(this._lookup[index], this._lookup[index - 1])),
                   FromInt(index)),
              One),
         this._resolution)

translateFromLinear(this, linearValue) ==
    IF FLe(linearValue, this._lookup[0]) THEN Zero
    ELSE IF FGt(linearValue, UpperClampBound(this)) THEN this._M
    ELSE LET found == FindInterval(this._lookup, linearValue) IN
         IF found = 0 THEN Zero
         ELSE LET index == IF found < 0 THEN BitNot(found) ELSE found IN
              IF index >= this._bins THEN this._M
              ELSE IF index > 0 THEN Interpolate(this, linearValue, index)
              ELSE this._lookup[0]

\* Variant: translateToLinear does not clamp its argument.
Unclamped(scaledValue) == scaledValue

\* Variant: translateToLinear clamps its argument from below only.
ClampBelowOnly(scaledValue) == IF FLt(scaledValue, Zero) THEN Zero ELSE scaledValue

\* The clamp of translateToLinear, which names the literal 4.5.
ClampScale(scaledValue) ==
    IF FLt(scaledValue, Zero) THEN Zero
    ELSE IF FGt(scaledValue, Lit(9, -1)) THEN Lit(9, -1)
    ELSE scaledValue

\* translateToLinear: the linear value, or the error "Illegal argument to
\* Logicle scale"; with them the index computed and the positions of the
\* table the call read.
translateToLinear(this, scaledValue) ==
    LET sv == ClampScale(scaledValue)
        x == FDiv(sv, this._resolution)
        index == MathFloor(x)
        delta == FSub(x, index)
    IN IF FLt(index, Zero) \/ FGt(index, FromInt(this._bins))
       THEN [threw |-> TRUE, value |-> NaN, index |-> index, reads |-> {}]
       ELSE IF FLt(index, FromInt(this._bins))
       THEN [threw |-> FALSE,
             value |-> FAdd(FMul(FSub(One, delta), this._lookup[ToInt(index)]),
                            FMul(delta, this._lookup[ToInt(index) + 1])),
             index |-> index, reads |-> {ToInt(index), ToInt(index) + 1}]
       ELSE [threw |-> FALSE, value |-> this._lookup[this._bins],
             index |-> index, reads |-> {this._bins}]

\* get RValue()
RValue(this) == this._rValue

\* Variant: solve stores the root it found in _d.
SolveStoresRoot(this, b, w) == [this EXCEPT !._d = solve(this, b, w).value]

\* The fields of `this` after each method has run: no method assigns a field.
translateFromLinearEffect(this, linearValue) == this
translateToLinearEffect(this, scaledValue) == this
solveEffect(this, b, w) == this
seriesBiexponentialEffect(this, scale) == this
inverseEffect(this, scale) == this
RValueEffect(this) == this

(***************************************************************************)
(* The cache: const translators and constructBiExponentialTranslator       *)
(***************************************************************************)

Digit == <<"0", "1", "2", "3", "4", "5", "6", "7", "8", "9">>

\* The decimal digits of the integer n >= 0.
RECURSIVE IntDigits(_)
IntDigits(n) ==
    IF n < 10 THEN <<Digit[n + 1]>> ELSE Append(IntDigits(n \div 10), Digit[(n % 10) + 1])

\* The decimal digits of the fraction r / 2^k, 0 < r < 2^k.
RECURSIVE FracDigits(_, _)
FracDigits(r, k) ==
    IF r = 0 THEN <<>>
    ELSE <<Digit[((r * 10) \div Pow2[k]) + 1]>> \o FracDigits((r * 10) % Pow2[k], k)

\* Number::toString of a number, as the characters of the string.
NumberToString(x) ==
    IF IsNaN(x) THEN <<"N", "a", "N">>
    ELSE IF IsInf(x)
         THEN (IF x.m < 0 THEN <<"-">> ELSE <<>>) \o <<"I", "n", "f", "i", "n", "i", "t", "y">>
         ELSE LET n == ToInt(MathAbs(x))
                  r == IF x.e >= 0 THEN 0 ELSE IAbs(x.m) % Pow2[-x.e]
              IN (IF x.m < 0 THEN <<"-">> ELSE <<>>)
                 \o IntDigits(n)
                 \o (IF r = 0 THEN <<>> ELSE <<".">> \o FracDigits(r, -x.e))

\* Variant: the key is built from rValue alone.
CacheKeyOfRValue(rValue, linearMax) == NumberToString(rValue)

\* const key = `${rValue}_${linearMax}`
CacheKey(rValue, linearMax) ==
    NumberToString(rValue) \o <<"_">> \o NumberToString(linearMax)

\* The arguments the model passes to the cache: (1, 1000), (2, 1000),
\* (1, 2000), (-1, 1000), and (1, -5), for which the constructor throws.
CacheInputs ==
    {<<FromInt(1), FromInt(1000)>>, <<FromInt(2), FromInt(1000)>>,
     <<FromInt(1), FromInt(2000)>>, <<FromInt(-1), FromInt(1000)>>,
     <<FromInt(1), FromInt(-5)>>}

\* The arguments of the specification of the table queries, and of the
\* specification of all the methods.
QueryInputs == {<<FromInt(1), FromInt(1000)>>, <<FromInt(-1), FromInt(1000)>>}
MethodInputs == {<<FromInt(-1), FromInt(1000)>>}

\* Arguments with linearMax > 0 and rValue finite whose width W exceeds M:
\* rValue = -131072, linearMax = 1; and (-1, 1000) again.
WideInputs == {<<FromInt(-131072), One>>, <<FromInt(-1), FromInt(1000)>>}

\* The constructor's result on each argument pair of the model.  The
\* constructor is a pure function of its arguments; it is evaluated once here.
Construction ==
    [p \in CacheInputs \cup QueryInputs \cup MethodInputs \cup WideInputs |->
        BiexponentialTranslator(p[1], p[2])]

\* Variant: the cache never finds a key.
MapHasNever(map, key) == FALSE

\* Variant: the cache keeps only the entry set last.
MapSetEvicting(map, key, value) == [k \in {key} |-> value]

\* Map.prototype.has and Map.prototype.set
MapHas(map, key) == key \in DOMAIN map
MapSet(map, key, value) ==
    [k \in DOMAIN map \cup {key} |-> IF k = key THEN value ELSE map[k]]

\* return translators.get(key)!
CacheReturn(map, objects, key) ==
    [threw |-> FALSE, map |-> map, objects |-> objects, instance |-> map[key]]

\* Variant: a construction that fails leaves an entry for its key, and the
\* error is not passed on.
CacheInsertSwallowing(map, objects, key, new) ==
    [threw |-> FALSE, map |-> MapSet(map, key, Len(objects) + 1),
     objects |-> Append(objects, new.this), instance |-> Len(objects) + 1]

\* translators.set(key, new BiexponentialTranslator(rValue, linearMax)) and the
\* return that follows, `new` the outcome of the constructor.
CacheInsert(map, objects, key, new) ==
    IF new.threw
    THEN [threw |-> TRUE, map |-> map, objects |-> objects, instance |-> 0]
    ELSE CacheReturn(MapSet(map, key, Len(objects) + 1), Append(objects, new.this), key)

\* constructBiExponentialTranslator(rValue, linearMax) on the cache `map` and
\* the objects `objects` allocated so far (an instance is its position in
\* objects): the cache and the objects afterwards and the instance returned, or
\* the constructor's error.
constructBiExponentialTranslator(map, objects, rValue, linearMax) ==
    LET key == CacheKey(rValue, linearMax) IN
    IF MapHas(map, key)
    THEN CacheReturn(map, objects, key)
    ELSE CacheInsert(map, objects, key, Construction[<<rValue, linearMax>>])

(***************************************************************************)
(* The state machine                                                       *)
(***************************************************************************)

VARIABLES
    translators,  \* the module's Map: key -> instance
    heap,         \* the BiexponentialTranslator objects allocated, by instance
    returned,     \* history: <<rValue, linearMax, instance>> of every return of the cache
    last,         \* the last call that ended: operation, arguments and outcome
    solving,      \* the call of solve in progress: its local variables
    async         \* the asynchronous callers of the cache: who runs, and where

vars == <<translators, heap, returned, last, solving, async>>

\* The asynchronous callers of the cache (the async methods of the benchmark
\* service), and the arguments they pass.
Callers == {1, 2}
AsyncInputs ==
    {<<FromInt(1), FromInt(1000)>>, <<FromInt(2), FromInt(1000)>>,
     <<FromInt(-1), FromInt(1000)>>, <<FromInt(1), FromInt(-5)>>}

\* No caller runs; every caller is outside constructBiExponentialTranslator.
AsyncIdle == [running |-> 0, pc |-> [c \in Callers |-> "outside"],
              args |-> [c \in Callers |-> <<>>]]

NoCall == [op |-> "none", instance |-> 0, a1 |-> Undefined, a2 |-> Undefined,
           from |-> Undefined, threw |-> FALSE, value |-> Undefined,
           iterations |-> 0, exits |-> <<>>, hit |-> FALSE]

NotSolving == [active |-> FALSE, instance |-> 0, b |-> Undefined, iterations |-> 0,
               exits |-> <<>>, st |-> Undefined]

Init ==
    /\ translators = [k \in {} |-> 0]
    /\ heap = <<>>
    /\ returned = {}
    /\ last = NoCall
    /\ solving = NotSolving
    /\ async = AsyncIdle

\* The end of a call constructBiExponentialTranslator(p[1], p[2]) with outcome r.
CacheCall(p, r) ==
        /\ translators' = r.map
        /\ heap' = r.objects
        /\ returned' = IF r.threw THEN returned
                       ELSE returned \cup {<<p[1], p[2], r.instance>>}
        /\ last' = [NoCall EXCEPT !.op = "constructBiExponentialTranslator",
                                  !.a1 = p[1], !.a2 = p[2], !.threw = r.threw,
                                  !.instance = r.instance,
                                  !.hit = MapHas(translators, CacheKey(p[1], p[2]))]
        /\ UNCHANGED solving

\* A call constructBiExponentialTranslator(rValue, linearMax).
GetOrConstruct(inputs) ==
    \E p \in inputs :
        /\ ~solving.active
        /\ CacheCall(p, constructBiExponentialTranslator(translators, heap, p[1], p[2]))
        /\ UNCHANGED async

Instances == 1..Len(heap)

Mid(x, y) == FDiv(FAdd(x, y), Two)
\* The largest number below the positive number x.
Pred(x) ==
    IF x.m = Pow2[Precision - 1]
    THEN [x EXCEPT !.m = Pow2[Precision] - 1, !.e = x.e - 1]
    ELSE [x EXCEPT !.m = x.m - 1]

\* The linear values the model passes to translateFromLinear of `this`: table
\* entries, midpoints of table cells, the largest number of cell 401, and
\* values outside the table.
ProbeCells == {0, 1, 2, 400, 401, _bins - 2, _bins - 1}
LinearInputs(this) ==
    {this._lookup[i] : i \in ProbeCells \cup {_bins}}
    \cup {Mid(this._lookup[i], this._lookup[i + 1]) : i \in ProbeCells}
    \cup {Pred(this._lookup[402])}
    \cup {FSub(this._lookup[0], One), FAdd(this._lookup[_bins], One), NaN}

\* The scale values the model passes to translateToLinear, inverse and
\* seriesBiexponential.
ScaleInputs ==
    {FromInt(-1), Zero, Lit(9, -12), Lit(9, -11), Lit(27, -12), Lit(1, -2), Lit(1, -1),
     One, Lit(9, -2), FSub(Lit(9, -1), Lit(9, -12)), Lit(9, -1), FromInt(5), NaN}

\* The arguments (b, w) the model passes to solve: b > 0 with w = 0, w > 0
\* and w not a number, and w = 0 with b negative, zero and not a number.
SolveInputs ==
    ({FMul(_M, LN_10), One} \X {Zero, FDiv(One, FromInt(6)), Lit(1, -1), FromInt(40), NaN})
    \cup ({FromInt(-1), Zero, NaN} \X {Zero})

\* The executions of the loop body of solve(b, w) for every (b, w) of the
\* model, which depend on `this` through _EPSILON only; evaluated once here.
SolveRuns ==
    {[eps |-> eps, b |-> p[1], w |-> p[2],
      steps |-> SolveSteps([_EPSILON |-> eps], SolveEntry(p[1], p[2]))] :
        eps \in {_EPSILON}, p \in SolveInputs}

\* The n-th execution of the loop body of solve(b, w) of `this`.
SolveStep(this, b, w, n) ==
    (CHOOSE r \in SolveRuns : r.eps = this._EPSILON /\ r.b = b /\ r.w = w).steps[n]

TranslateFromLinear ==
    \E id \in Instances : \E v \in LinearInputs(heap[id]) :
        /\ ~solving.active
        /\ heap' = [heap EXCEPT ![id] = translateFromLinearEffect(heap[id], v)]
        /\ last' = [NoCall EXCEPT !.op = "translateFromLinear", !.instance = id,
                                  !.a1 = v, !.value = translateFromLinear(heap[id], v)]
        /\ UNCHANGED <<translators, returned, solving, async>>

\* translateToLinear of a scale value, or of the value the preceding
\* translateFromLinear of the same instance returned (a round trip; `from` is
\* then the linear value that call was given).
TranslateToLinear ==
    \E id \in Instances : \E chained \in BOOLEAN :
        \E s \in IF chained THEN {last.value} ELSE ScaleInputs :
            /\ ~solving.active
            /\ chained => last.op = "translateFromLinear" /\ last.instance = id
            /\ LET r == translateToLinear(heap[id], s) IN
               last' = [NoCall EXCEPT !.op = "translateToLinear", !.instance = id,
                                      !.a1 = s, !.threw = r.threw, !.value = r.value,
                                      !.from = IF chained THEN last.a1 ELSE Undefined]
            /\ heap' = [heap EXCEPT ![id] = translateToLinearEffect(heap[id], s)]
            /\ UNCHANGED <<translators, returned, solving, async>>

Inverse ==
    \E id \in Instances : \E s \in ScaleInputs :
        /\ ~solving.active
        /\ heap' = [heap EXCEPT ![id] = inverseEffect(heap[id], s)]
        /\ last' = [NoCall EXCEPT !.op = "inverse", !.instance = id, !.a1 = s,
                                  !.value = inverse(heap[id], s)]
        /\ UNCHANGED <<translators, returned, solving, async>>

SeriesBiexponential ==
    \E id \in Instances : \E s \in ScaleInputs :
        /\ ~solving.active
        /\ heap' = [heap EXCEPT ![id] = seriesBiexponentialEffect(heap[id], s)]
        /\ last' = [NoCall EXCEPT !.op = "seriesBiexponential", !.instance = id,
                                  !.a1 = s, !.value = seriesBiexponential(heap[id], s)]
        /\ UNCHANGED <<translators, returned, solving, async>>

GetRValue ==
    \E id \in Instances :
        /\ ~solving.active
        /\ heap' = [heap EXCEPT ![id] = RValueEffect(heap[id])]
        /\ last' = [NoCall EXCEPT !.op = "RValue", !.instance = id,
                                  !.value = RValue(heap[id])]
        /\ UNCHANGED <<translators, returned, solving, async>>

\* The end of a call of solve with outcome r.
SolveEnds(id, b, w, r, exits) ==
    /\ last' = [NoCall EXCEPT !.op = "solve", !.instance = id, !.a1 = b, !.a2 = w,
                              !.threw = r.threw, !.value = r.value,
                              !.iterations = r.iterations, !.exits = exits]
    /\ heap' = [heap EXCEPT ![id] = solveEffect(heap[id], b, w)]
    /\ solving' = NotSolving

\* A call solve(b, w) up to its loop: it returns b when w == 0.
SolveCall ==
    \E id \in Instances : \E p \in SolveInputs :
        /\ ~solving.active
        /\ IF ReturnsDirectly(p[2])
           THEN SolveEnds(id, p[1], p[2], Returned(p[1], 0), <<>>)
           ELSE /\ solving' = [active |-> TRUE, instance |-> id, b |-> p[1],
                               iterations |-> 0, exits |-> <<>>,
                               st |-> SolveEntry(p[1], p[2])]
                /\ UNCHANGED <<heap, last>>
        /\ UNCHANGED <<translators, returned, async>>

\* The end of one execution of the loop body with outcome r.
SolveIterated(r) ==
    IF r.exit # "none"
    THEN SolveEnds(solving.instance, solving.b, solving.st.w,
                   Returned(r.value, solving.iterations + 1), Append(solving.exits, r.exit))
    ELSE /\ solving' = [solving EXCEPT !.st = r.next, !.iterations = @ + 1,
                                       !.exits = Append(@, r.exit)]
         /\ UNCHANGED <<heap, last>>

\* The test of the loop condition of solve and, when it holds, one execution
\* of the loop body; the throw after the loop when it does not.
SolveIterate ==
    /\ solving.active
    /\ IF ~(solving.st.i < SolveLoopLimit)
       THEN SolveEnds(solving.instance, solving.b, solving.st.w,
                      Thrown(solving.iterations), solving.exits)
       ELSE SolveIterated(SolveStep(heap[solving.instance], solving.b, solving.st.w,
                                  solving.iterations + 1))
    /\ UNCHANGED <<translators, returned, async>>

\* Variant: a caller may run while another caller is inside a call.
MayRunAnytime(c) == TRUE

\* constructBiExponentialTranslator is not an async function and contains no
\* await: a caller that has entered it keeps the thread until it has left it,
\* and a caller that runs keeps the thread until its next await.
MayRun(c) == async.running \in {0, c}

\* Caller c enters constructBiExponentialTranslator(p[1], p[2]): it builds the
\* key and tests translators.has(key).
AsyncLookup(c) ==
    \E p \in AsyncInputs :
        /\ MayRun(c) /\ async.pc[c] = "outside"
        /\ async' = [running |-> c,
                     pc |-> [async.pc EXCEPT ![c] =
                                IF MapHas(translators, CacheKey(p[1], p[2]))
                                THEN "found" ELSE "absent"],
                     args |-> [async.args EXCEPT ![c] = p]]
        /\ UNCHANGED <<translators, heap, returned, last, solving>>

\* The rest of the call of caller c, on the outcome of its test: the return
\* of the entry found, or the construction, the insertion and the return.
AsyncFinishes(c, p, key) ==
    /\ CacheCall(p, IF async.pc[c] = "found"
                    THEN CacheReturn(translators, heap, key)
                    ELSE CacheInsert(translators, heap, key, Construction[p]))
    /\ async' = [async EXCEPT !.pc[c] = "outside", !.args[c] = <<>>]

AsyncFinish(c) ==
    /\ MayRun(c) /\ async.pc[c] # "outside"
    /\ AsyncFinishes(c, async.args[c], CacheKey(async.args[c][1], async.args[c][2]))

\* The caller that runs reaches an await, or the end of its task: the event
\* loop may run another caller.
AsyncAwait(c) ==
    /\ async.running = c /\ async.pc[c] = "outside"
    /\ async' = [async EXCEPT !.running = 0]
    /\ UNCHANGED <<translators, heap, returned, last, solving>>

\* The cache under every argument pair of CacheInputs, and the accessor.
Next ==
    \/ GetOrConstruct(CacheInputs)
    \/ GetRValue

Spec == Init /\ [][Next]_vars

\* The table queries on the transforms of QueryInputs.
NextQuery ==
    \/ GetOrConstruct(QueryInputs)
    \/ TranslateFromLinear
    \/ TranslateToLinear
    \/ Inverse
    \/ SeriesBiexponential
    \/ GetRValue

SpecQuery == Init /\ [][NextQuery]_vars

\* Every method on the transform of MethodInputs, solve iteration by iteration.
NextMethods ==
    \/ GetOrConstruct(MethodInputs)
    \/ TranslateFromLinear
    \/ TranslateToLinear
    \/ Inverse
    \/ SeriesBiexponential
    \/ GetRValue
    \/ SolveCall
    \/ SolveIterate

SpecMethods == Init /\ [][NextMethods]_vars

\* seriesBiexponential as a function of the fields it reads, _x1 and _taylor:
\* objects whose 16 coefficients are small integers.  Unit(i, c) has the
\* coefficient c at index i and 0 elsewhere, Dense(k) has i - k at index i.
Unit(i, c) == [j \in 0..15 |-> IF j = i THEN FromInt(c) ELSE Zero]
Dense(k) == [j \in 0..15 |-> FromInt(j - k)]
UnitPolynomials ==
    {[_x1 |-> FromInt(x1), _taylor |-> Unit(i, c)] :
        x1 \in {0, 1}, i \in 0..15, c \in {1, -3}}
DensePolynomials == {[_x1 |-> FromInt(x1), _taylor |-> Dense(k)] : x1 \in {0, 1}, k \in {-1, 7}}
Polynomials == UnitPolynomials \cup DensePolynomials

\* The objects seriesBiexponential is called on: the polynomials, and the
\* fields _x1 and _taylor of two transforms constructed.
SeriesObjects ==
    Polynomials
    \cup {[_x1 |-> Construction[p].this._x1, _taylor |-> Construction[p].this._taylor] :
            p \in WideInputs}

\* Its arguments: x1 + k for small integers k, for which every product and
\* sum of the loop is exact; x1 itself for a transform constructed.
SeriesScales(this) ==
    IF this \in UnitPolynomials THEN {FAdd(this._x1, FromInt(k)) : k \in -2..2}
    ELSE IF this \in DensePolynomials THEN {FAdd(this._x1, FromInt(k)) : k \in -1..1}
    ELSE {this._x1}

InitSeries ==
    /\ translators = [k \in {} |-> 0]
    /\ heap \in {<<o>> : o \in SeriesObjects}
    /\ returned = {}
    /\ last = NoCall
    /\ solving = NotSolving
    /\ async = AsyncIdle

SeriesOfPolynomial ==
    \E id \in Instances : \E s \in SeriesScales(heap[id]) :
        /\ heap' = [heap EXCEPT ![id] = seriesBiexponentialEffect(heap[id], s)]
        /\ last' = [NoCall EXCEPT !.op = "seriesBiexponential", !.instance = id,
                                  !.a1 = s, !.value = seriesBiexponential(heap[id], s)]
        /\ UNCHANGED <<translators, returned, solving, async>>

SpecSeries == InitSeries /\ [][SeriesOfPolynomial]_vars

\* inverse and seriesBiexponential on the transforms of WideInputs.
NextWide ==
    \/ GetOrConstruct(WideInputs)
    \/ Inverse
    \/ SeriesBiexponential
    \/ GetRValue

SpecWide == Init /\ [][NextWide]_vars

\* The cache under asynchronous callers.
NextAsync ==
    \E c \in Callers : AsyncLookup(c) \/ AsyncFinish(c) \/ AsyncAwait(c)

SpecAsync == Init /\ [][NextAsync]_vars

\* solve runs synchronously: once called, nothing suspends its loop, so an
\* iteration that can be taken is taken.
SpecMethodsFair == SpecMethods /\ WF_vars(SolveIterate)

(***************************************************************************)
(* The history managers                                                    *)
(***************************************************************************)

\* The largest number of entries the model lets a history hold.
MaxHistory == 3

\* The states the model passes to a manager: JavaScript arrays, one of them
\* holding NaN, and for the Immutable.js manager an Immutable List as well.
HistoryValues(impl) ==
    {[kind |-> "array", items |-> <<"1">>], [kind |-> "array", items |-> <<"2", "NaN">>]}
    \cup IF impl = "Immutable" THEN {[kind |-> "List", items |-> <<"3">>]} ELSE {}

\* What push stores for state: a deep copy (cloneDeep, klona), the JSON text,
\* in which NaN is written as null (JSON.stringify), the state itself
\* (produce with the identity recipe), an Immutable List unless state is one
\* already (fromJS), or a frozen copy.
Snapshot(impl, state) ==
    IF impl = "Json"
    THEN [kind |-> "json",
          items |-> [i \in DOMAIN state.items |->
                        IF state.items[i] = "NaN" THEN "null" ELSE state.items[i]]]
    ELSE IF impl = "Immutable" THEN [state EXCEPT !.kind = "List"]
    ELSE state

\* What getCurrentState, undo and redo return for a stored entry: a copy, the
\* parsed JSON text (JSON.parse), or the entry itself.
Restore(impl, entry) ==
    IF impl = "Json" THEN [entry EXCEPT !.kind = "array"] ELSE entry

\* Variant: canUndo holds at the first entry too.
CanUndoAtStart(h) == h.currentIndex >= 0

canUndo(h) == h.currentIndex > 0
canRedo(h) == h.currentIndex < Len(h.states) - 1

\* The entry at currentIndex, an index from 0.
getCurrentState(h) == Restore(h.impl, h.states[h.currentIndex + 1])

\* Variant: push keeps the entries after currentIndex.
PushKeepingRedo(h, state) ==
    [h EXCEPT !.states = Append(h.states, Snapshot(h.impl, state)),
              !.currentIndex = h.currentIndex + 1]

push(h, state) ==
    [h EXCEPT !.states = Append(SubSeq(h.states, 1, h.currentIndex + 1),
                                Snapshot(h.impl, state)),
              !.currentIndex = h.currentIndex + 1]

\* Variant: redo at the last entry goes back to the first entry.
RedoWrapping(h) ==
    [h |-> [h EXCEPT !.currentIndex = IF canRedo(h) THEN h.currentIndex + 1 ELSE 0],
     value |-> getCurrentState(
                   [h EXCEPT !.currentIndex = IF canRedo(h) THEN h.currentIndex + 1 ELSE 0])]

\* Variant: redo returns the entry it leaves.
RedoReturnsStale(h) ==
    IF ~canRedo(h) THEN [h |-> h, value |-> [kind |-> "null", items |-> <<>>]]
    ELSE [h |-> [h EXCEPT !.currentIndex = h.currentIndex + 1],
          value |-> getCurrentState(h)]

\* undo and redo: the manager afterwards and the value returned, null or the
\* entry at the new currentIndex.
undo(h) ==
    IF ~canUndo(h) THEN [h |-> h, value |-> [kind |-> "null", items |-> <<>>]]
    ELSE [h |-> [h EXCEPT !.currentIndex = h.currentIndex - 1],
          value |-> getCurrentState([h EXCEPT !.currentIndex = h.currentIndex - 1])]

redo(h) ==
    IF ~canRedo(h) THEN [h |-> h, value |-> [kind |-> "null", items |-> <<>>]]
    ELSE [h |-> [h EXCEPT !.currentIndex = h.currentIndex + 1],
          value |-> getCurrentState([h EXCEPT !.currentIndex = h.currentIndex + 1])]

\* new XHistoryManager(initialState): states = [], currentIndex = -1, then
\* push(initialState).
NewHistoryManager(impl, initialState) ==
    push([impl |-> impl, states |-> <<>>, currentIndex |-> -1], initialState)

\* The end of a call `op` on the manager, which leaves the manager r.h and
\* returns r.value; `from` keeps currentIndex, states.length and the current
\* state of before, and the call before this one with the currentIndex and the
\* current state it started from.
HistoryCall(op, state, r) ==
    /\ heap' = [heap EXCEPT ![1] = r.h]
    /\ last' = [NoCall EXCEPT !.op = op, !.instance = 1, !.a1 = state,
                              !.value = r.value,
                              !.from = [index |-> heap[1].currentIndex,
                                        length |-> Len(heap[1].states),
                                        current |-> getCurrentState(heap[1]),
                                        after |-> last.op,
                                        afterIndex |->
                                            IF last.op = NoCall.op THEN -1
                                            ELSE last.from.index,
                                        afterCurrent |->
                                            IF last.op = NoCall.op
                                            THEN [kind |-> "null", items |-> <<>>]
                                            ELSE last.from.current]]
    /\ UNCHANGED <<translators, returned, solving, async>>

\* One manager of each of the six classes, constructed on each state.
NextHistory ==
    \/ \E state \in HistoryValues(heap[1].impl) :
          /\ heap[1].currentIndex + 1 < MaxHistory
          /\ HistoryCall("push", state, [h |-> push(heap[1], state), value |-> Undefined])
    \/ HistoryCall("undo", Undefined, undo(heap[1]))
    \/ HistoryCall("redo", Undefined, redo(heap[1]))

SpecHistory ==
    /\ heap \in {<<NewHistoryManager(impl, state)>> :
                    impl \in {"Lodash", "Json", "Klona", "Immer", "Immutable",
                              "NativeImmutable"},
                    state \in {[kind |-> "array", items |-> <<"1">>],
                               [kind |-> "array", items |-> <<"2", "NaN">>]}}
    /\ translators = [k \in {} |-> 0]
    /\ returned = {}
    /\ last = NoCall
    /\ solving = NotSolving
    /\ async = AsyncIdle
    /\ [][NextHistory]_vars

\* A call of solve that ended has the outcome of the method as a whole.
SameOutcome(r, call) ==
    r.threw = call.threw /\ r.value = call.value /\ r.iterations = call.iterations
SolveStepsAgree ==
    /\ last.op = "solve" => SameOutcome(solve(heap[last.instance], last.a1, last.a2), last)
    /\ (solving.active /\ solving.st.i < SolveLoopLimit) =>
          SolveBody(heap[solving.instance], solving.st)
            = SolveStep(heap[solving.instance], solving.b, solving.st.w,
                        solving.iterations + 1)

(***************************************************************************)
(* The cache                                                               *)
(***************************************************************************)

\* C1: over all the calls that returned so far, two calls were given the same
\* (rValue, linearMax) exactly when they returned the same instance.
CacheIdentity ==
    \A r1, r2 \in returned : (r1[1] = r2[1] /\ r1[2] = r2[2]) <=> r1[3] = r2[3]

\* A repeated request has just returned, and requests that differ in rValue
\* only and in linearMax only have returned before.
CacheIdentityWitness ==
    /\ last.hit
    /\ \E r1, r2 \in returned : r1[1] # r2[1] /\ r1[2] = r2[2]
    /\ \E r1, r2 \in returned : r1[1] = r2[1] /\ r1[2] # r2[2]

\* C2 as stated: no two distinct instances have the same value of RValue and
\* the same linearMax.
OncePerEffectivePair ==
    \A i, j \in Instances :
        (RValue(heap[i]) = RValue(heap[j]) /\ heap[i]._T = heap[j]._T) => i = j

\* C2: a transform has been created exactly once per distinct argument pair
\* (rValue, linearMax) that has returned: there are as many objects as such
\* pairs, and the cache maps as many keys, each to an object of its own.
OncePerArgumentPair ==
    /\ Len(heap) = Cardinality({<<r[1], r[2]>> : r \in returned})
    /\ Cardinality(DOMAIN translators) = Len(heap)
    /\ \A k1, k2 \in DOMAIN translators : translators[k1] = translators[k2] => k1 = k2

\* Two instances with the same value of RValue and the same linearMax exist
\* and a repeated request has just returned.
OncePerArgumentPairWitness ==
    /\ last.hit
    /\ \E i, j \in Instances :
          i # j /\ RValue(heap[i]) = RValue(heap[j]) /\ heap[i]._T = heap[j]._T

(***************************************************************************)
(* solve                                                                   *)
(***************************************************************************)

\* C3 as stated: solve fails only after 20 executions of its loop body.
SolveFailsAfterTwenty ==
    (last.op = "solve" /\ last.threw) => last.iterations = 20

\* C3: for w != 0 solve executes its loop body at most 19 times, and it fails
\* exactly when 19 executions have ended with no return statement; for w == 0
\* it returns b without entering the loop.
SolveFailsAfterNineteen ==
    /\ solving.active => solving.iterations <= 19
    /\ last.op = "solve" =>
          /\ last.iterations <= 19 /\ Len(last.exits) = last.iterations
          /\ last.threw <=> (last.iterations = 19
                               /\ \A k \in 1..19 : last.exits[k] = "none")
          /\ FEq(last.a2, Zero) => (last.iterations = 0 /\ last.value = last.a1)
          /\ (~last.threw /\ ~FEq(last.a2, Zero)) =>
                (last.iterations >= 1 /\ last.exits[last.iterations] # "none")

\* A call of solve with w != 0 has failed.
SolveFailsAfterNineteenWitness ==
    last.op = "solve" /\ last.threw /\ ~FEq(last.a2, Zero) /\ last.iterations = 19

(***************************************************************************)
(* translateFromLinear and translateToLinear                               *)
(***************************************************************************)

\* The interpolation C4 states, over the interval i that brackets v.
InterpolationOver(this, v, i) ==
    FMul(FAdd(FromInt(i), FDiv(FSub(v, this._lookup[i]),
                               FSub(this._lookup[i + 1], this._lookup[i]))),
         this._resolution)

InterpolatesOver(this, v, i, result) ==
    /\ i >= 0
    /\ result = InterpolationOver(this, v, i)
    /\ FLe(FMul(FromInt(i), this._resolution), result)
    /\ FLe(result, FMul(FromInt(i + 1), this._resolution))

\* C4: for lookup[0] < v <= lookup[bins - 1], translateFromLinear returns
\* (i + (v - lookup[i]) / (lookup[i + 1] - lookup[i])) * resolution for the i
\* with lookup[i] <= v < lookup[i + 1], a value from i * resolution to
\* (i + 1) * resolution (the upper end included: rounding can carry the
\* value of a v next to lookup[i + 1] there).
InterpolatesBracketingInterval ==
    (/\ last.op = "translateFromLinear"
     /\ FLt(heap[last.instance]._lookup[0], last.a1)
     /\ FLe(last.a1, heap[last.instance]._lookup[_bins - 1]))
    => InterpolatesOver(heap[last.instance], last.a1,
                        FindInterval(heap[last.instance]._lookup, last.a1), last.value)

\* y lies in a table cell that contains x, or on its boundary.
InCellOf(lookup, x, y) ==
    \E i \in 0..(_bins - 1) :
        /\ FLe(lookup[i], x) /\ FLe(x, lookup[i + 1])
        /\ FLe(lookup[i], y) /\ FLe(y, lookup[i + 1])

\* C5: for lookup[0] <= x <= lookup[bins - 1],
\* translateToLinear(translateFromLinear(x)) lies in the table cell that
\* contains x or on its boundary.
RoundTripStaysInCell ==
    (/\ last.op = "translateToLinear" /\ last.from # Undefined
     /\ FLe(heap[last.instance]._lookup[0], last.from)
     /\ FLe(last.from, heap[last.instance]._lookup[_bins - 1]))
    => (~last.threw /\ InCellOf(heap[last.instance]._lookup, last.from, last.value))

ClampsTo(this, v, result) ==
    /\ FLe(v, this._lookup[0]) => result = Zero
    /\ FGt(v, this._lookup[_bins - 1]) => (result = this._M /\ result = Lit(9, -1))

TableAt(this, x, index) ==
    IF index = _bins THEN this._lookup[_bins]
    ELSE FAdd(FMul(FSub(One, FSub(x, FromInt(index))), this._lookup[index]),
              FMul(FSub(x, FromInt(index)), this._lookup[index + 1]))
TableValue(this, s) ==
    TableAt(this, FDiv(s, this._resolution), ToInt(MathFloor(FDiv(s, this._resolution))))

ToLinearOf(this, s, call) ==
    /\ ~call.threw
    /\ FLt(s, Zero) => call.value = translateToLinear(this, Zero).value
    /\ FGt(s, this._M) => call.value = translateToLinear(this, this._M).value
    /\ (FGe(s, Zero) /\ FLe(s, this._M)) => call.value = TableValue(this, s)
    /\ FEq(s, Zero) => call.value = this._lookup[0]
    /\ FEq(s, this._M) => call.value = this._lookup[_bins]

\* C7: translateToLinear gives any s < 0 the result of 0 and any s > M the
\* result of M; for s in [0, M] it returns (1 - delta) * lookup[index] +
\* delta * lookup[index + 1], index = floor(s / resolution), delta the
\* fractional remainder; translateToLinear(0) = lookup[0] and
\* translateToLinear(M) = lookup[bins].
ToLinearClampsAndInterpolates ==
    last.op = "translateToLinear" => ToLinearOf(heap[last.instance], last.a1, last)

\* translateToLinear has returned for an argument below 0.
ToLinearClampsAndInterpolatesWitness ==
    /\ last.op = "translateToLinear" /\ FLt(last.a1, Zero)
    /\ last.value = heap[last.instance]._lookup[0]

(***************************************************************************)
(* The constructor and the fields                                          *)
(***************************************************************************)

Normalised(this, rValue, linearMax) ==
    /\ FLt(rValue, Zero) =>
          /\ RValue(this) = MathAbs(rValue)
          /\ this.max = linearMax /\ this.min = this._lookup[0]
    /\ FGe(rValue, Zero) =>
          /\ RValue(this) = FDiv(One, FromInt(1000))
          /\ this.max = Zero /\ this.min = Zero
    /\ FGt(RValue(this), Zero)

\* C8: an instance returned for rValue < 0 has RValue = |rValue|, max =
\* linearMax and min = lookup[0]; one returned for rValue >= 0 has RValue =
\* 0.001 and min = max = 0, their initial value; RValue is positive, and the
\* accessor returns it.
NormalisesRValue ==
    /\ \A r \in returned : Normalised(heap[r[3]], r[1], r[2])
    /\ last.op = "RValue" => last.value = heap[last.instance]._rValue

\* The accessor has returned 1 on the instance built for rValue = -1, and an
\* instance built for a non-negative rValue exists.
NormalisesRValueWitness ==
    /\ last.op = "RValue" /\ last.value = One
    /\ \E r \in returned : r[3] = last.instance /\ r[1] = FromInt(-1)
    /\ \E r \in returned : FGe(r[1], Zero)

FirstRequest(call) ==
    call.op = "constructBiExponentialTranslator" /\ ~call.hit /\ ~call.threw

\* C9: every step keeps every key of the cache, mapped to the same instance;
\* the first successful request of a key adds that key and no other, and no
\* other step changes the cache.
NoEviction ==
    [][/\ \A k \in DOMAIN translators :
             k \in DOMAIN translators' /\ translators'[k] = translators[k]
       /\ FirstRequest(last') =>
             /\ CacheKey(last'.a1, last'.a2) \notin DOMAIN translators
             /\ DOMAIN translators' =
                   DOMAIN translators \cup {CacheKey(last'.a1, last'.a2)}
       /\ ~FirstRequest(last') => translators' = translators]_vars

\* The cache holds four keys and a repeated request has just returned.
NoEvictionWitness ==
    Cardinality(DOMAIN translators) = 4 /\ last.hit

\* C10: no step changes a field of an object that exists.
NeverMutated ==
    [][\A id \in Instances : id <= Len(heap') /\ heap'[id] = heap[id]]_vars

\* A call of solve has ended in its error and the object is as constructed.
NeverMutatedWitness ==
    /\ last.op = "solve" /\ last.threw
    /\ \E p \in MethodInputs : heap[last.instance] = Construction[p].this

(***************************************************************************)
(* solve: termination and the degenerate case                              *)
(***************************************************************************)

\* The call of solve in progress was given b > 0 and w >= 0.
SolvingAdmissible ==
    solving.active /\ FGt(solving.b, Zero) /\ FGe(solving.st.w, Zero)

\* C11: a call solve(b, w) with b > 0 and w >= 0 never executes its loop body
\* more than 19 times, and once in progress it ends, by a return or by the
\* convergence error.
SolveTerminates ==
    /\ [](solving.active => solving.iterations <= 19)
    /\ (SolvingAdmissible ~> ~solving.active)

\* A call of solve with b > 0 and w > 0 has used all 19 iterations and ended.
SolveTerminatesWitness ==
    /\ last.op = "solve" /\ FGt(last.a1, Zero) /\ FGt(last.a2, Zero)
    /\ last.iterations = 19 /\ ~solving.active

\* C12: a call solve(b, 0) that ended returned b, the very value it was given,
\* executed no iteration of the loop and raised no error.
DegenerateSolve ==
    (last.op = "solve" /\ FEq(last.a2, Zero)) =>
        (~last.threw /\ last.value = last.a1 /\ last.iterations = 0
         /\ last.exits = <<>>)

\* solve(b, 0) has ended for a b that is not positive.
DegenerateSolveWitness ==
    last.op = "solve" /\ FEq(last.a2, Zero) /\ ~FGt(last.a1, Zero) /\ ~last.threw

(***************************************************************************)
(* The cache when the constructor fails                                    *)
(***************************************************************************)

\* The step is a call of the cache that ends in an error.
FailingRequest ==
    last'.op = "constructBiExponentialTranslator" /\ last'.threw

\* C13: a call of the cache whose key is absent ends in an error exactly when
\* the constructor on its arguments does (the error reaches the caller, the
\* constructor is not tried again with other arguments), and a call that ends
\* in an error leaves the cache as it was: same keys, same instances, no entry
\* for the failing key, no object added, nothing returned.
ErrorLeavesCacheUnchanged ==
    [][/\ (last'.op = "constructBiExponentialTranslator" /\ ~last'.hit) =>
             (last'.threw <=> Construction[<<last'.a1, last'.a2>>].threw)
       /\ FailingRequest =>
             /\ translators' = translators /\ heap' = heap /\ returned' = returned
             /\ ~MapHas(translators', CacheKey(last'.a1, last'.a2))
             /\ ~last'.hit]_vars

\* A call has failed while the cache held two entries or more, and the cache
\* has no entry for its key.
ErrorLeavesCacheUnchangedWitness ==
    /\ last.op = "constructBiExponentialTranslator" /\ last.threw
    /\ Cardinality(DOMAIN translators) >= 2
    /\ ~MapHas(translators, CacheKey(last.a1, last.a2))

(***************************************************************************)
(* inverse and seriesBiexponential                                         *)
(***************************************************************************)

\* The point 2 * x1 - s, the reflection of the scale value s in x1.
Reflected(this, s) == FSub(FMul(Two, this._x1), s)

\* C14: inverse of a scale value s < x1 is the negation of the value the
\* branch for scale values at or above x1 gives at 2 * x1 - s, which is not
\* below x1 and whose inverse is therefore that same value; inverse of s >= x1
\* is the value of that branch at s itself.
InverseReflects ==
    last.op = "inverse" =>
        /\ FLt(last.a1, heap[last.instance]._x1) =>
              /\ FGe(Reflected(heap[last.instance], last.a1), heap[last.instance]._x1)
              /\ last.value = FNeg(InversePositive(heap[last.instance],
                                                   Reflected(heap[last.instance], last.a1)))
              /\ last.value = FNeg(inverse(heap[last.instance],
                                           Reflected(heap[last.instance], last.a1)))
        /\ FGe(last.a1, heap[last.instance]._x1) =>
              last.value = InversePositive(heap[last.instance], last.a1)

\* inverse was called below x1 on a transform with x1 > 0, and returned a
\* negative number.
InverseReflectsWitness ==
    /\ last.op = "inverse" /\ FGt(heap[last.instance]._x1, Zero)
    /\ FLt(last.a1, heap[last.instance]._x1) /\ FLt(last.value, Zero)

(***************************************************************************)
(* The cache under asynchronous callers                                    *)
(***************************************************************************)

\* C15: under every interleaving of the callers, in every state, intermediate
\* ones included: a caller that has tested the key and not yet returned is the
\* one that runs, no other caller is inside the call, and the outcome of its
\* test still holds; every object constructed is the entry of exactly one key
\* (one construction per key at most); and the calls that returned were given
\* the same arguments exactly when they returned the same instance.
AtomicCheckThenInsert ==
    /\ \A c \in Callers :
          async.pc[c] # "outside" =>
              /\ async.running = c
              /\ \A o \in Callers \ {c} : async.pc[o] = "outside"
              /\ (async.pc[c] = "found") <=>
                    MapHas(translators, CacheKey(async.args[c][1], async.args[c][2]))
    /\ Len(heap) = Cardinality(DOMAIN translators)
    /\ \A k \in DOMAIN translators : \A l \in DOMAIN translators :
          translators[k] = translators[l] => k = l
    /\ \A r \in returned : \A q \in returned :
          (r[1] = q[1] /\ r[2] = q[2]) <=> r[3] = q[3]

\* One caller is inside a call for a key that is absent while the other has
\* been returned an instance and is suspended.
AtomicCheckThenInsertWitness ==
    /\ \E c \in Callers : async.pc[c] = "absent" /\ async.running = c
    /\ returned # {} /\ Len(heap) >= 1

\* The table of `this` does not decrease from entry i to entry i + 1.
TableStepsUp(this, i) == FLe(this._lookup[i], this._lookup[i + 1])

\* C16: the table of every transform constructed is non-decreasing, and the
\* value a call of inverse returned is ordered with inverse of every other
\* scale value as the two scale values are.
InverseMonotone ==
    /\ \A id \in Instances : \A i \in 0..(_bins - 1) : TableStepsUp(heap[id], i)
    /\ last.op = "inverse" =>
          \A s \in ScaleInputs :
              /\ FLt(last.a1, s) => FLe(last.value, inverse(heap[last.instance], s))
              /\ FLt(s, last.a1) => FLe(inverse(heap[last.instance], s), last.value)

\* The coefficients the loop of the constructor computes from the fields of
\* `this`, the one at index 1 included.
Recurrence(this) ==
    TaylorLoop(0, this._b, this._d,
               FMul(this._a, MathExp(FMul(this._b, this._x1))),
               FDiv(FNeg(this._c), MathExp(FMul(this._d, this._x1))), NewTaylor)

\* C17: every transform constructed has 16 Taylor coefficients, at the indices
\* 0 to 15; the one at index 1 is 0 and every other one is the number the
\* recurrence computed.
TaylorSymmetry ==
    \A id \in Instances :
        /\ TaylorLength(heap[id]) = 16 /\ DOMAIN heap[id]._taylor = 0..15
        /\ heap[id]._taylor[1] = Zero
        /\ \A i \in 0..15 : heap[id]._taylor[i] # Undefined
        /\ heap[id]._taylor = [Recurrence(heap[id]) EXCEPT ![1] = Zero]

\* A transform exists for which the recurrence computed a coefficient other
\* than 0 at index 1.
TaylorSymmetryWitness ==
    \E id \in Instances :
        Recurrence(heap[id])[1] # Zero /\ heap[id]._taylor[1] = Zero

(***************************************************************************)
(* solve: the bracket                                                      *)
(***************************************************************************)

\* The bracket of the call of solve in progress contains the estimate d and
\* lies in [0, b]; before the first iteration it is [0, b].
BracketHolds ==
    /\ FLe(solving.st.d_lo, solving.st.d) /\ FLe(solving.st.d, solving.st.d_hi)
    /\ FLe(Zero, solving.st.d_lo) /\ FLe(solving.st.d_hi, solving.b)
    /\ solving.iterations = 0 => (solving.st.d_lo = Zero /\ solving.st.d_hi = solving.b)

\* The step is an iteration of solve after which the call continues, and it
\* moves exactly one end of the bracket to the new estimate: d_lo when f at
\* the new estimate is negative, d_hi otherwise; the other end stays.
BracketNarrows ==
    (solving.active /\ solving'.active /\ solving' # solving) =>
        /\ FLt(solving'.st.f, Zero) =>
              (solving'.st.d_lo = solving'.st.d /\ solving'.st.d_hi = solving.st.d_hi)
        /\ ~FLt(solving'.st.f, Zero) =>
              (solving'.st.d_hi = solving'.st.d /\ solving'.st.d_lo = solving.st.d_lo)
        /\ FLe(solving.st.d_lo, solving'.st.d_lo)
        /\ FLe(solving'.st.d_hi, solving.st.d_hi)

\* C18: for b > 0 and w >= 0, when solve tests its loop condition the bracket
\* contains d and lies in [0, b], and every iteration after which the loop
\* continues moves exactly one end of the bracket inwards to the new d.
SolverBracket ==
    /\ [](SolvingAdmissible => BracketHolds)
    /\ [][(SolvingAdmissible /\ solving'.active) => BracketNarrows]_vars

\* A call with b > 0 and w > 0 is in progress; iterations have moved both
\* ends of its bracket, and the last one was a Newton step.
SolverBracketWitness ==
    /\ SolvingAdmissible /\ solving.iterations >= 3
    /\ FLt(Zero, solving.st.d_lo) /\ FLt(solving.st.d_hi, solving.b)
    /\ ~solving.st.bisect

(***************************************************************************)
(* seriesBiexponential as a polynomial                                     *)
(***************************************************************************)

RECURSIVE IntPow(_, _)
IntPow(x, n) == IF n = 0 THEN 1 ELSE x * IntPow(x, n - 1)

\* The sum over i in {0, 2, 3, ..., 15}, i >= from, of taylor[i] * x^(i + 1),
\* for integer coefficients and an integer x.
RECURSIVE PolynomialFrom(_, _, _)
PolynomialFrom(taylor, x, from) ==
    IF from > 15 THEN 0
    ELSE (IF from = 1 THEN 0 ELSE ToInt(taylor[from]) * IntPow(x, from + 1))
         + PolynomialFrom(taylor, x, from + 1)

\* seriesBiexponential of `this` at scale returned value, the polynomial's.
SeriesIsPolynomial(this, scale, value) ==
    value = FromInt(PolynomialFrom(this._taylor, ToInt(FSub(scale, this._x1)), 0))

\* C19: seriesBiexponential(scale) is the sum over i in {0, 2, 3, ..., 15} of
\* taylor[i] * (scale - x1)^(i + 1), checked where the arithmetic is exact; and
\* seriesBiexponential(x1) is 0 for every object.
SeriesPolynomial ==
    last.op = "seriesBiexponential" =>
        /\ heap[last.instance] \in Polynomials =>
              SeriesIsPolynomial(heap[last.instance], last.a1, last.value)
        /\ last.a1 = heap[last.instance]._x1 => last.value = Zero

\* seriesBiexponential returned -3 * 2^16 for the polynomial with the
\* coefficient -3 at index 15, at x = 2.
SeriesPolynomialWitness ==
    /\ last.op = "seriesBiexponential"
    /\ heap[last.instance]._taylor[15] = FromInt(-3)
    /\ FSub(last.a1, heap[last.instance]._x1) = Two
    /\ last.value = FromInt(-196608)

(***************************************************************************)
(* translateFromLinear: the range of the result                            *)
(***************************************************************************)

\* translateFromLinear(linearValue) of `this` reaches the assignment
\* scaledValue = this._lookup[0]: neither clamp applies and the scan finds no
\* interval.
TakesFallback(this, linearValue) ==
    /\ ~FLe(linearValue, this._lookup[0])
    /\ ~FGt(linearValue, this._lookup[this._bins - 1])
    /\ FindInterval(this._lookup, linearValue) = -1

\* C20: translateFromLinear returns a scale value in [0, M], and never by the
\* assignment of lookup[0].
ScaleValueInRange ==
    last.op = "translateFromLinear" =>
        /\ FGe(last.value, Zero) /\ FLe(last.value, heap[last.instance]._M)
        /\ ~TakesFallback(heap[last.instance], last.a1)

(***************************************************************************)
(* translateFromLinear: monotonicity                                       *)
(***************************************************************************)

\* The table of `this` is strictly increasing.
StrictlyIncreasing(this) ==
    \A i \in 0..(this._bins - 1) : FLt(this._lookup[i], this._lookup[i + 1])

\* The linear values the result of a call is compared with: the entries that
\* begin the cells probed and the cells after them.
BoundaryValues(this) == {this._lookup[i] : i \in ProbeCells} \cup {this._lookup[402]}

\* C21: on a strictly increasing table, the value a call of
\* translateFromLinear returned is ordered with translateFromLinear of every
\* table entry as the two linear values are.
FromLinearMonotone ==
    (last.op = "translateFromLinear" /\ StrictlyIncreasing(heap[last.instance])) =>
        \A v \in BoundaryValues(heap[last.instance]) :
            /\ FLe(last.a1, v) =>
                  FLe(last.value, translateFromLinear(heap[last.instance], v))
            /\ FLe(v, last.a1) =>
                  FLe(translateFromLinear(heap[last.instance], v), last.value)

(***************************************************************************)
(* translateToLinear: the index and the table positions read               *)
(***************************************************************************)

\* The call of translateToLinear on scale value s with outcome r raised no
\* error and read positions of the table within 0..bins only; its index is in
\* [0, bins] when s is a number, and at index = bins it read lookup[bins]
\* alone and returned it.
IndexWithinTable(this, s, r) ==
    /\ ~r.threw
    /\ r.reads # {} /\ r.reads \subseteq 0..this._bins
    /\ ~IsNaN(s) => (FGe(r.index, Zero) /\ FLe(r.index, FromInt(this._bins)))
    /\ FEq(r.index, FromInt(this._bins)) =>
          (r.reads = {this._bins} /\ r.value = this._lookup[this._bins])

\* C22: every call of translateToLinear computes an index in [0, bins] after
\* the clamp, raises no error and reads the table at positions 0..bins only.
ToLinearIndexInRange ==
    last.op = "translateToLinear" =>
        /\ ~last.threw
        /\ IndexWithinTable(heap[last.instance], last.a1,
                            translateToLinear(heap[last.instance], last.a1))

\* translateToLinear has returned lookup[bins] for an argument above M.
ToLinearIndexInRangeWitness ==
    /\ last.op = "translateToLinear" /\ FGt(last.a1, heap[last.instance]._M)
    /\ ~last.threw /\ last.value = heap[last.instance]._lookup[_bins]
    /\ translateToLinear(heap[last.instance], last.a1).reads = {_bins}

(***************************************************************************)
(* The history managers: index, push, undo and redo                        *)
(***************************************************************************)

\* C23: the history of every manager is non-empty, currentIndex is an index
\* of it (counted from 0), canUndo() holds exactly when currentIndex > 0 and
\* canRedo() exactly when currentIndex < states.length - 1.
HistoryIndexInvariant ==
    \A id \in Instances :
        /\ Len(heap[id].states) >= 1
        /\ 0 <= heap[id].currentIndex /\ heap[id].currentIndex <= Len(heap[id].states) - 1
        /\ canUndo(heap[id]) <=> heap[id].currentIndex > 0
        /\ canRedo(heap[id]) <=> heap[id].currentIndex < Len(heap[id].states) - 1

\* A manager holds three entries and stands at the middle one after an undo.
HistoryIndexInvariantWitness ==
    /\ last.op = "undo" /\ Len(heap[1].states) = 3 /\ heap[1].currentIndex = 1
    /\ canUndo(heap[1]) /\ canRedo(heap[1])

\* C24: a push of s leaves the entries at 0..oldIndex as they were, removes
\* every entry after oldIndex, stores the snapshot of s as the last entry,
\* sets currentIndex to oldIndex + 1 = states.length - 1, and leaves canRedo()
\* false and, the history having held an entry before, canUndo() true.
PushDiscardsRedo ==
    [][last'.op = "push" =>
          /\ SubSeq(heap'[1].states, 1, heap[1].currentIndex + 1)
                 = SubSeq(heap[1].states, 1, heap[1].currentIndex + 1)
          /\ Len(heap'[1].states) = heap[1].currentIndex + 2
          /\ heap'[1].states[Len(heap'[1].states)] = Snapshot(heap[1].impl, last'.a1)
          /\ heap'[1].currentIndex = heap[1].currentIndex + 1
          /\ heap'[1].currentIndex = Len(heap'[1].states) - 1
          /\ ~canRedo(heap'[1])
          /\ Len(heap[1].states) >= 1 => canUndo(heap'[1])]_vars

\* A push at the first of three entries has removed the two after it.
PushDiscardsRedoWitness ==
    /\ last.op = "push" /\ last.from.index = 0 /\ last.from.length = 3
    /\ Len(heap[1].states) = 2 /\ heap[1].currentIndex = 1
    /\ heap[1].states[2] = Snapshot(heap[1].impl, last.a1)

\* C25: undo() at currentIndex 0 and redo() at the last entry return null and
\* leave currentIndex and the stored states as they were; any other undo or
\* redo moves currentIndex by exactly one, down or up, and leaves the stored
\* states as they were.
UndoRedoAtBounds ==
    [][/\ last'.op \in {"undo", "redo"} => heap'[1].states = heap[1].states
       /\ last'.op = "undo" /\ heap[1].currentIndex = 0 =>
              /\ last'.value = [kind |-> "null", items |-> <<>>]
              /\ heap'[1].currentIndex = heap[1].currentIndex
       /\ last'.op = "redo" /\ heap[1].currentIndex = Len(heap[1].states) - 1 =>
              /\ last'.value = [kind |-> "null", items |-> <<>>]
              /\ heap'[1].currentIndex = heap[1].currentIndex
       /\ last'.op = "undo" /\ heap[1].currentIndex > 0 =>
              heap'[1].currentIndex = heap[1].currentIndex - 1
       /\ last'.op = "redo" /\ heap[1].currentIndex < Len(heap[1].states) - 1 =>
              heap'[1].currentIndex = heap[1].currentIndex + 1]_vars

\* A redo at the last of two entries has returned null and moved nothing.
UndoRedoAtBoundsWitness ==
    /\ last.op = "redo" /\ last.from.index = 1 /\ last.from.length = 2
    /\ last.value = [kind |-> "null", items |-> <<>>]
    /\ heap[1].currentIndex = 1 /\ Len(heap[1].states) = 2

\* C26: a redo() that follows an undo() made when canUndo() held restores the
\* currentIndex of before the undo and returns a state equal to the one that
\* was current then; an undo() that follows a redo() made when canRedo() held
\* restores the currentIndex and the current state of before the redo.
UndoRedoRoundTrip ==
    /\ last.op = "redo" /\ last.from.after = "undo" /\ last.from.afterIndex > 0 =>
           /\ heap[1].currentIndex = last.from.afterIndex
           /\ last.value = last.from.afterCurrent
    /\ last.op = "undo" /\ last.from.after = "redo"
           /\ last.from.afterIndex < last.from.length - 1 =>
           /\ heap[1].currentIndex = last.from.afterIndex
           /\ getCurrentState(heap[1]) = last.from.afterCurrent

\* An undo from the second of two different entries, then a redo, which
\* returns the second entry again.
UndoRedoRoundTripWitness ==
    /\ last.op = "redo" /\ last.from.after = "undo" /\ last.from.afterIndex = 1
    /\ last.from.index = 0 /\ heap[1].currentIndex = 1
    /\ last.from.current # last.from.afterCurrent
    /\ last.value = last.from.afterCurrent

====
